---- MODULE Spec2Model ----
(***************************************************************************)
(* Model of DW5XLE_UNITTOOL.pyw: the unit editor (MainEditor), its         *)
(* in-memory unit table, the files it reads and writes, and the mod        *)
(* manager windows (ModManager) that patch a table block into an image.    *)
(*                                                                         *)
(* Bytes are integers 0..255, byte strings are sequences of bytes.  The    *)
(* table size, the scan's chunk size and the displacement of the table     *)
(* behind the signature are scaled down (they are bounds of the model);    *)
(* the record size and the signature are the program's.                    *)
(***************************************************************************)
EXTENDS Integers, Sequences, FiniteSets, TLC

----------------------------------------------------------------------------
(* Program constants *)

SLOT_SIZE == 22

\* 895 in the program; the table is NUM_SLOTS_TOTAL records long.
NUM_SLOTS_TOTAL == 2

\* 8000 in the program (chunk_size, a local of the load).
chunk_size == 40

\* 0x3D0 in the program: the table starts this far behind the signature.
TABLE_DISPLACEMENT == 34

AOB_PATTERN ==
    << 20, 20, 20, 128, 20, 20, 20, 128, 20, 20, 20, 128, 20, 20, 20, 128,
       0, 0, 0, 0, 0, 0, 0, 0, 0, 0, 0, 0, 0, 0, 0, 0 >>

DEFAULT_MOD_NAME == "DW5XLEUnit"

\* Python's None for an offset; offsets are never negative.
None == -1

\* The text of an entry that holds no digits: IntVar.get() raises on it.
EMPTY == -1

----------------------------------------------------------------------------
(* Byte strings *)

Min(a, b) == IF a <= b THEN a ELSE b

\* b[lo:hi] of Python for 0 <= lo (0-based, hi exclusive, clipped).
Slice(b, lo, hi) == SubSeq(b, lo + 1, Min(hi, Len(b)))

\* b[-n:] of Python for n > 0.
LastBytes(b, n) == IF Len(b) <= n THEN b ELSE SubSeq(b, Len(b) - n + 1, Len(b))

Zeros(n) == [i \in 1..n |-> 0]

MatchesAt(data, pattern, i) ==
    /\ i + Len(pattern) <= Len(data)
    /\ \A j \in 1..Len(pattern) : data[i + j] = pattern[j]

\* bytes.find: the 0-based index of the first occurrence, or -1.
find(data, pattern) ==
    LET hits == {i \in 0..(Len(data) - Len(pattern)) : MatchesAt(data, pattern, i)}
    IN  IF hits = {} THEN -1
        ELSE CHOOSE i \in hits : \A k \in hits : i <= k

\* A seek to pos followed by a write of data, on a BytesIO or on a file opened
\* "r+b": bytes are overwritten in place; writing behind the end extends the
\* content (a gap is filled with zero bytes).
WriteAt(content, pos, data) ==
    LET padded == IF pos > Len(content)
                  THEN content \o Zeros(pos - Len(content))
                  ELSE content
    IN  Slice(padded, 0, pos) \o data \o Slice(padded, pos + Len(data), Len(padded))

----------------------------------------------------------------------------
(* The scan for the signature *)

\* The scan without the overlap between chunks.
RECURSIVE ScanChunksNoTail(_, _, _, _)
ScanChunksNoTail(file, pos, prev_tail, file_offset) ==
    LET chunk == Slice(file, pos, pos + chunk_size)
        idx   == find(chunk, AOB_PATTERN)
    IN  IF chunk = << >> THEN None
        ELSE IF idx # -1 THEN (file_offset + idx) + TABLE_DISPLACEMENT
        ELSE ScanChunksNoTail(file, pos + Len(chunk), << >>,
                              file_offset + Len(chunk))

RECURSIVE ScanChunks(_, _, _, _)
\* The loop of the first pass: pos is the file's read position, which equals
\* file_offset at the top of every iteration.
ScanChunks(file, pos, prev_tail, file_offset) ==
    LET chunk == Slice(file, pos, pos + chunk_size)
        data  == prev_tail \o chunk
        idx   == find(data, AOB_PATTERN)
        plen  == Len(AOB_PATTERN)
    IN  IF chunk = << >> THEN None
        ELSE IF idx # -1
             THEN ((file_offset - Len(prev_tail)) + idx) + TABLE_DISPLACEMENT
             ELSE ScanChunks(file, pos + Len(chunk),
                             IF Len(data) >= plen - 1
                             THEN LastBytes(data, plen - 1)
                             ELSE data,
                             file_offset + Len(chunk))

ScanForPattern(file) == ScanChunks(file, 0, << >>, 0)

----------------------------------------------------------------------------
(* The record codec *)

\* The one-byte fields in the order of their bytes: BYTE_FIELDS[k] is the
\* byte at offset k + 1 of the record; the name is the bytes 0 and 1.
BYTE_FIELDS ==
    << "unknown1", "voice", "model", "color", "moveset", "horse", "life",
       "attack", "defense", "bow", "mounted", "speed", "strafespeed", "jump",
       "ailevel", "aitype", "unknown2", "weapon", "weaponlevel", "orb" >>

FIELD_NAMES == {"name"} \cup {BYTE_FIELDS[k] : k \in 1..Len(BYTE_FIELDS)}

\* The fields that have an entry in the form (_build_entries).
VISIBLE_FIELDS == FIELD_NAMES \ {"unknown1", "unknown2"}

\* The offset of a one-byte field in the record.
ByteOffset(f) == 1 + (CHOOSE k \in 1..Len(BYTE_FIELDS) : BYTE_FIELDS[k] = f)

\* int.from_bytes(b, "little") of two bytes, and int.to_bytes(2, "little").
FromBytesLE(b) == b[1] + 256 * b[2]
\* The name's two bytes in the other order.
ToBytesBE(n) == << n \div 256, n % 256 >>

ToBytesLE(n) == << n % 256, n \div 256 >>

\* The assignments of unit_display: the IntVars set from the 22 bytes read.
DecodeRecord(data) ==
    [f \in FIELD_NAMES |->
        IF f = "name" THEN FromBytesLE(Slice(data, 0, 2))
        ELSE data[ByteOffset(f) + 1]]

\* submit_unit without the check of the name's range.
SubmitExceptionNoRange(slot_index, vars) ==
    IF ~(0 <= slot_index /\ slot_index < NUM_SLOTS_TOTAL)
    THEN "Slot out of range."
    ELSE IF \E f \in DOMAIN vars : vars[f] = EMPTY THEN "expected integer"
    ELSE ""

\* The exception submit_unit raises before it writes, "" when it raises none:
\* IntVar.get() raises on an entry without digits, the name is read and
\* checked first.
SubmitException(slot_index, vars) ==
    IF ~(0 <= slot_index /\ slot_index < NUM_SLOTS_TOTAL)
    THEN "Slot out of range."
    ELSE IF vars["name"] = EMPTY THEN "expected integer"
    ELSE IF ~(0 <= vars["name"] /\ vars["name"] <= 65535)
    THEN "Name ID must be between 0 and 65535."
    ELSE IF \E k \in 1..Len(BYTE_FIELDS) : vars[BYTE_FIELDS[k]] = EMPTY
    THEN "expected integer"
    ELSE ""

\* The bytearray submit_unit builds: the name in two bytes, every other
\* field masked to its low byte.
EncodeRecord(vars) ==
    ToBytesLE(vars["name"])
        \o [k \in 1..Len(BYTE_FIELDS) |-> vars[BYTE_FIELDS[k]] % 256]

\* hex(i) without its "0x", as the sequence of the digits' values, and
\* int(s, 16) of such a string.
RECURSIVE hex(_)
hex(i) == IF i < 16 THEN << i >> ELSE hex(i \div 16) \o << i % 16 >>

RECURSIVE int16(_)
int16(s) == IF s = << >> THEN 0
            ELSE 16 * int16(SubSeq(s, 1, Len(s) - 1)) + s[Len(s)]

----------------------------------------------------------------------------
(* Bounds of the model and the files the editor is run on *)

\* Handler runs in one session.
MaxSteps == 4

BLOCK_SIZE == SLOT_SIZE * NUM_SLOTS_TOTAL

Filler(n) == [i \in 1..n |-> 255]

\* A table whose bytes all differ, so that no two fields of a record and no
\* two records are equal.
TableBytes(seed, n) == [i \in 1..n |-> (seed + 7 * i) % 256]

\* An image with the signature at position p, the table behind it and a few
\* bytes behind the table.
ImageWith(p, table) ==
    Filler(p) \o AOB_PATTERN \o Filler(TABLE_DISPLACEMENT - Len(AOB_PATTERN))
        \o table \o Filler(3)

\* An image that ends with the bytes given for its table.
ImageCut(p, table) ==
    Filler(p) \o AOB_PATTERN \o Filler(TABLE_DISPLACEMENT - Len(AOB_PATTERN))
        \o table

\* A path is << directory, base name >>, the extension ".iso" left out;
\* << >> is the empty string the file dialog returns on cancel.
NO_PATH == << >>

basename_stem(path) == path[2]

\* The images: two with the same base name in different directories, the
\* first with the signature across the first chunk boundary; one without the
\* signature; one that ends inside the table.  << "d1", "gone" >> is no file.
ISO_FILES ==
    (<< "d1", "game" >> :> ImageWith(chunk_size - 15, TableBytes(1, BLOCK_SIZE)))
    @@ (<< "d2", "game" >> :> ImageWith(chunk_size + 10, TableBytes(100, BLOCK_SIZE)))
    @@ (<< "d1", "nosig" >> :> Filler(chunk_size + 10))
    @@ (<< "d1", "short" >> :> ImageCut(3, TableBytes(50, BLOCK_SIZE - 1)))

ISO_PATHS == DOMAIN ISO_FILES \cup {<< "d1", "gone" >>}

\* Mod files that are in the working directory before the session: one of
\* the table's size, one a byte short.
MOD_FILES ==
    ("thirdparty" :> TableBytes(200, BLOCK_SIZE))
    @@ ("badsize" :> TableBytes(200, BLOCK_SIZE - 1))

\* The backup directory holds a file of another size, of no image used here.
BACKUP_FILES == ("old" :> TableBytes(150, BLOCK_SIZE + 1))

\* What the user types: the mod name split at its dots, ...
MOD_NAMES == {<< "" >>, << "mymod", "v2" >>}

\* ... and entries of the form.
EDIT_FIELDS == {"name", "voice", "orb"}

EntryInputs(f) ==
    CASE f = "name"  -> {EMPTY, 513, 70000}
      [] f = "voice" -> {EMPTY, 300}
      [] f = "orb"   -> {9}

----------------------------------------------------------------------------
(* State *)

VARIABLES
    dw_iso,             \* MainEditor.dw_iso: the path of the image, or NO_PATH
    unit_mem,           \* MainEditor.unit_mem: None or a BytesIO (buf, pos)
    iso_unit_offset,    \* MainEditor.iso_unit_offset: None or the table's offset
    found_offset,       \* the result of the last run of the scan
    form,               \* the IntVars: field name -> value or EMPTY
    selected_slot_str,  \* the combobox's text: the hex digits of a slot
    modname,            \* the mod name entry, split at its dots
    status_label,       \* the editor's status line
    managers,           \* the open ModManager windows (path, offset, block size)
    mod_status,         \* the status line of the window whose button ran last
    iso_fs,             \* the image files: path -> content
    backup_fs,          \* BACKUP_DIR: base name -> content of <base>_Original.unitdata
    mod_fs,             \* the working directory: base name -> content of <base>.dw5xlemod
    steps               \* handler runs so far

vars == << dw_iso, unit_mem, iso_unit_offset, found_offset, form,
           selected_slot_str, modname, status_label, managers, mod_status,
           iso_fs, backup_fs, mod_fs, steps >>

Status(text, detail, fg) == [text |-> text, detail |-> detail, fg |-> fg]

NoneMem == [isNone |-> TRUE, buf |-> << >>, pos |-> 0]

BytesIO(data) == [isNone |-> FALSE, buf |-> data, pos |-> 0]

isfile(fs, path) == path \in DOMAIN fs

Init ==
    /\ dw_iso = NO_PATH
    /\ unit_mem = NoneMem
    /\ iso_unit_offset = None
    /\ found_offset = None
    /\ form = [f \in FIELD_NAMES |-> 0]
    /\ selected_slot_str = hex(0)
    /\ modname = << "" >>
    /\ status_label = Status("", "", "green")
    /\ managers = {}
    /\ mod_status = Status("", "", "green")
    /\ iso_fs = ISO_FILES
    /\ backup_fs = BACKUP_FILES
    /\ mod_fs = MOD_FILES
    /\ steps = 0

----------------------------------------------------------------------------
(* MainEditor *)

\* The test on the bytes read at the found offset.
never_short(data, total_bytes) == FALSE

short_read(data, total_bytes) == Len(data) # total_bytes

\* The backup written on every load.
backup_always(backups, iso_base, data) ==
    [n \in DOMAIN backups \cup {iso_base} |->
        IF n = iso_base THEN data ELSE backups[n]]

\* "Create backup once per ISO": the backup directory after a load of data
\* from the image with base name iso_base.
backup_once(backups, iso_base, data) ==
    IF iso_base \in DOMAIN backups
    THEN backups
    ELSE backups @@ (iso_base :> data)

\* BytesIO.read() to the end, which starts at the position.
read_rest(mem) == Slice(mem.buf, mem.pos, Len(mem.buf))

\* BytesIO.getvalue(): the whole content, wherever the position is.
getvalue(mem) == mem.buf

\* _load_unit_data_in_memory for self.dw_iso = path: what it leaves in
\* unit_mem, iso_unit_offset, the status line and the backup directory.
\* scanned tells whether the scan ran, found is its found_offset.
load_unit_data_in_memory(path, fs, backups, mem, offset) ==
    LET same(text) ==
            [unit_mem |-> mem, iso_unit_offset |-> offset, scanned |-> FALSE,
             found |-> None, backup_fs |-> backups,
             status |-> Status(text, "", "red")]
    IN
    IF path = NO_PATH THEN same("No ISO selected.")
    ELSE IF ~isfile(fs, path) THEN same("Selected ISO not found.")
    ELSE
    LET found       == ScanForPattern(fs[path])
        total_bytes == SLOT_SIZE * NUM_SLOTS_TOTAL
        data        == Slice(fs[path], found, found + total_bytes)
        iso_base    == basename_stem(path)
    IN
    IF found = None
    THEN [unit_mem |-> NoneMem, iso_unit_offset |-> None, scanned |-> TRUE,
          found |-> found, backup_fs |-> backups,
          status |-> Status("Could not locate unit data block in ISO file.",
                            "", "red")]
    ELSE IF short_read(data, total_bytes)
    THEN [unit_mem |-> NoneMem, iso_unit_offset |-> None, scanned |-> TRUE,
          found |-> found, backup_fs |-> backups,
          status |-> Status("Unexpected EOF", "", "red")]
    ELSE [unit_mem |-> BytesIO(data), iso_unit_offset |-> found,
          scanned |-> TRUE, found |-> found,
          backup_fs |-> backup_once(backups, iso_base, data),
          status |-> Status("Unit block loaded into memory and backup created (if missing).",
                            "", "green")]

\* unit_display(slot_index): the buffer (its position moves), the IntVars
\* and the status line it leaves.
unit_display(slot_index, mem, intvars, status) ==
    LET offset == slot_index * SLOT_SIZE
        data   == Slice(mem.buf, offset, offset + SLOT_SIZE)
        moved  == [mem EXCEPT !.pos = offset + Len(data)]
    IN
    IF mem.isNone
    THEN [unit_mem |-> mem, form |-> intvars,
          status |-> Status("Unit data not loaded.", "", "red")]
    ELSE IF ~(0 <= slot_index /\ slot_index < NUM_SLOTS_TOTAL)
    THEN [unit_mem |-> mem, form |-> intvars,
          status |-> Status("Slot out of range", "", "red")]
    ELSE IF Len(data) # SLOT_SIZE
    THEN [unit_mem |-> moved, form |-> intvars,
          status |-> Status("Unexpected end of unit data", "", "red")]
    ELSE [unit_mem |-> moved, form |-> DecodeRecord(data),
          status |-> Status("Loaded slot", "", "green")]

get_selected_slot_index(slot_str) == int16(slot_str)

\* The "Open DW5 XL/E ISO File" button, the dialog returning path.
ask_file(path) ==
    /\ steps < MaxSteps
    /\ steps' = steps + 1
    /\ IF path = NO_PATH
       THEN /\ status_label' = Status("No file selected.", "", "orange")
            /\ UNCHANGED << dw_iso, unit_mem, iso_unit_offset, found_offset,
                            form, backup_fs >>
       ELSE LET loaded == load_unit_data_in_memory(path, iso_fs, backup_fs,
                                                   unit_mem, iso_unit_offset)
                shown  == unit_display(0, loaded.unit_mem, form, loaded.status)
            IN  /\ dw_iso' = path
                /\ iso_unit_offset' = loaded.iso_unit_offset
                /\ found_offset' = IF loaded.scanned THEN loaded.found
                                   ELSE found_offset
                /\ backup_fs' = loaded.backup_fs
                /\ IF loaded.unit_mem.isNone
                   THEN /\ unit_mem' = loaded.unit_mem
                        /\ status_label' = loaded.status
                        /\ UNCHANGED form
                   ELSE /\ unit_mem' = shown.unit_mem
                        /\ status_label' = shown.status
                        /\ form' = shown.form
    /\ UNCHANGED << selected_slot_str, modname, managers, mod_status, iso_fs,
                    mod_fs >>

\* The user picks slot i in the combobox: its text is set, then
\* slot_selected runs.
slot_selected(i) ==
    /\ steps < MaxSteps
    /\ steps' = steps + 1
    /\ selected_slot_str' = hex(i)
    /\ LET shown == unit_display(get_selected_slot_index(hex(i)), unit_mem,
                                 form, status_label)
       IN  /\ unit_mem' = shown.unit_mem
           /\ form' = shown.form
           /\ status_label' = shown.status
    /\ UNCHANGED << dw_iso, iso_unit_offset, found_offset, modname, managers,
                    mod_status, iso_fs, backup_fs, mod_fs >>

\* The user replaces the text of the entry of field f (validate_numeric_input
\* lets through digits and the empty text).
edit_entry(f, v) ==
    /\ steps < MaxSteps
    /\ steps' = steps + 1
    /\ f \in VISIBLE_FIELDS
    /\ form' = [form EXCEPT ![f] = v]
    /\ UNCHANGED << dw_iso, unit_mem, iso_unit_offset, found_offset,
                    selected_slot_str, modname, status_label, managers,
                    mod_status, iso_fs, backup_fs, mod_fs >>

\* The user types a mod name.
edit_modname(n) ==
    /\ steps < MaxSteps
    /\ steps' = steps + 1
    /\ modname' = n
    /\ UNCHANGED << dw_iso, unit_mem, iso_unit_offset, found_offset, form,
                    selected_slot_str, status_label, managers, mod_status,
                    iso_fs, backup_fs, mod_fs >>

\* The "Submit values to unit data" button.
submit_unit ==
    /\ steps < MaxSteps
    /\ steps' = steps + 1
    /\ IF unit_mem.isNone
       THEN /\ status_label' = Status("Unit data not loaded.", "", "red")
            /\ UNCHANGED unit_mem
       ELSE LET slot_index == get_selected_slot_index(selected_slot_str)
                exception  == SubmitException(slot_index, form)
                offset     == slot_index * SLOT_SIZE
                record     == EncodeRecord(form)
            IN  IF exception # ""
                THEN /\ status_label' = Status("Error with entries", exception, "red")
                     /\ UNCHANGED unit_mem
                ELSE /\ unit_mem' = [unit_mem EXCEPT
                                        !.buf = WriteAt(unit_mem.buf, offset, record),
                                        !.pos = offset + Len(record)]
                     /\ status_label' = Status("Values written for slot", "", "green")
    /\ UNCHANGED << dw_iso, iso_unit_offset, found_offset, form,
                    selected_slot_str, modname, managers, mod_status, iso_fs,
                    backup_fs, mod_fs >>

\* The "Create Unit Mod" button.
create_unit_mod ==
    /\ steps < MaxSteps
    /\ steps' = steps + 1
    /\ IF unit_mem.isNone
       THEN /\ status_label' = Status("Unit data not loaded.", "", "red")
            /\ UNCHANGED mod_fs
       ELSE LET base_name == IF modname[1] = "" THEN DEFAULT_MOD_NAME
                             ELSE modname[1]
                data      == getvalue(unit_mem)
            IN  /\ mod_fs' = [n \in DOMAIN mod_fs \cup {base_name} |->
                                 IF n = base_name THEN data ELSE mod_fs[n]]
                /\ status_label' = Status("Mod file created successfully.", "", "green")
    /\ UNCHANGED << dw_iso, unit_mem, iso_unit_offset, found_offset, form,
                    selected_slot_str, modname, managers, mod_status, iso_fs,
                    backup_fs >>

\* The "Mod Manager" button: a ModManager window on the current image path
\* and offset.
open_mod_manager ==
    /\ steps < MaxSteps
    /\ steps' = steps + 1
    /\ IF iso_unit_offset = None
       THEN /\ status_label' = Status("Unit block offset in ISO not available.", "", "red")
            /\ UNCHANGED managers
       ELSE /\ managers' = managers \cup
                   {[iso_path |-> dw_iso, iso_unit_offset |-> iso_unit_offset,
                     block_size |-> SLOT_SIZE * NUM_SLOTS_TOTAL]}
            /\ UNCHANGED status_label
    /\ UNCHANGED << dw_iso, unit_mem, iso_unit_offset, found_offset, form,
                    selected_slot_str, modname, mod_status, iso_fs, backup_fs,
                    mod_fs >>

----------------------------------------------------------------------------
(* ModManager *)

\* The block written at the start of the image, without the seek.
apply_block_no_seek(m, data, fs, done, failed) ==
    IF Len(data) # m.block_size
    THEN [iso_fs |-> fs, mod_status |-> Status(failed, "size mismatch", "red")]
    ELSE IF ~isfile(fs, m.iso_path)
    THEN [iso_fs |-> fs, mod_status |-> Status(failed, "No such file", "red")]
    ELSE [iso_fs |-> [fs EXCEPT ![m.iso_path] = WriteAt(fs[m.iso_path], 0, data)],
          mod_status |-> Status(done, "", "green")]

\* The block written without the check of its size.
apply_block_unchecked(m, data, fs, done, failed) ==
    IF ~isfile(fs, m.iso_path)
    THEN [iso_fs |-> fs, mod_status |-> Status(failed, "No such file", "red")]
    ELSE [iso_fs |-> [fs EXCEPT ![m.iso_path] =
                         WriteAt(fs[m.iso_path], m.iso_unit_offset, data)],
          mod_status |-> Status(done, "", "green")]

\* The body enable_mod and disable_mod share: the block read from the picked
\* file is written into the image at the window's offset when it has the
\* window's block size.  The result is the image files and the window's
\* status line.
apply_block(m, data, fs, done, failed) ==
    IF Len(data) # m.block_size
    THEN [iso_fs |-> fs, mod_status |-> Status(failed, "size mismatch", "red")]
    ELSE IF ~isfile(fs, m.iso_path)
    THEN [iso_fs |-> fs, mod_status |-> Status(failed, "No such file", "red")]
    ELSE [iso_fs |-> [fs EXCEPT ![m.iso_path] =
                         WriteAt(fs[m.iso_path], m.iso_unit_offset, data)],
          mod_status |-> Status(done, "", "green")]

\* The "Enable Mod" button of window m, the dialog returning the mod file
\* file_path ("" on cancel).
enable_mod(m, file_path) ==
    /\ steps < MaxSteps
    /\ steps' = steps + 1
    /\ IF file_path = ""
       THEN UNCHANGED << mod_status, iso_fs >>
       ELSE LET applied == apply_block(m, mod_fs[file_path], iso_fs,
                                       "Mod enabled successfully.",
                                       "Error enabling mod")
            IN  /\ iso_fs' = applied.iso_fs
                /\ mod_status' = applied.mod_status
    /\ UNCHANGED << managers, dw_iso, unit_mem, iso_unit_offset, found_offset, form,
                    selected_slot_str, modname, status_label, backup_fs,
                    mod_fs >>

\* The "Disable Mod" button of window m, the dialog returning the backup file
\* file_path ("" on cancel).
disable_mod(m, file_path) ==
    /\ steps < MaxSteps
    /\ steps' = steps + 1
    /\ IF file_path = ""
       THEN UNCHANGED << mod_status, iso_fs >>
       ELSE LET applied == apply_block(m, backup_fs[file_path], iso_fs,
                                       "Backup applied successfully.",
                                       "Error disabling mod")
            IN  /\ iso_fs' = applied.iso_fs
                /\ mod_status' = applied.mod_status
    /\ UNCHANGED << managers, dw_iso, unit_mem, iso_unit_offset, found_offset, form,
                    selected_slot_str, modname, status_label, backup_fs,
                    mod_fs >>

----------------------------------------------------------------------------
(* The session: one handler at a time, each run to its end *)

Next ==
    \/ \E path \in ISO_PATHS \cup {NO_PATH} : ask_file(path)
    \/ \E i \in 0..(NUM_SLOTS_TOTAL - 1) : slot_selected(i)
    \/ \E f \in EDIT_FIELDS : \E v \in EntryInputs(f) : edit_entry(f, v)
    \/ \E n \in MOD_NAMES : edit_modname(n)
    \/ submit_unit
    \/ create_unit_mod
    \/ open_mod_manager
    \/ \E m \in managers : \E file_path \in DOMAIN mod_fs \cup {""} :
          enable_mod(m, file_path)
    \/ \E m \in managers : \E file_path \in DOMAIN backup_fs \cup {""} :
          disable_mod(m, file_path)

Spec == Init /\ [][Next]_vars

----------------------------------------------------------------------------
(* The scan alone: one image, drawn from files that put the signature at   *)
(* every position of the first chunks, and loads of it                     *)

\* The last position of the signature in the files scanned.
MaxScanPos == 85

SCAN_PATH == << "d1", "game" >>

FillerOf(byte, n) == [i \in 1..n |-> byte]

SCAN_FILES ==
    \* the signature at p, behind it nothing, the table, or a table cut short
    {FillerOf(b, p) \o AOB_PATTERN : p \in 0..MaxScanPos, b \in {255, 20}}
    \cup {ImageWith(p, TableBytes(1, BLOCK_SIZE)) : p \in 0..MaxScanPos}
    \cup {ImageCut(p, TableBytes(1, BLOCK_SIZE - 1)) : p \in 0..MaxScanPos}
    \* the signature twice
    \cup {Filler(p) \o AOB_PATTERN \o Filler(5) \o AOB_PATTERN : p \in 0..MaxScanPos}
    \* no signature: all but its last byte, or none of it
    \cup {Filler(p) \o SubSeq(AOB_PATTERN, 1, Len(AOB_PATTERN) - 1) : p \in 0..MaxScanPos}
    \cup {FillerOf(b, p) : p \in 0..MaxScanPos, b \in {255, 0}}

InitScan ==
    /\ dw_iso = NO_PATH
    /\ unit_mem = NoneMem
    /\ iso_unit_offset = None
    /\ found_offset = None
    /\ form = [f \in FIELD_NAMES |-> 0]
    /\ selected_slot_str = hex(0)
    /\ modname = << "" >>
    /\ status_label = Status("", "", "green")
    /\ managers = {}
    /\ mod_status = Status("", "", "green")
    /\ \E file \in SCAN_FILES : iso_fs = (SCAN_PATH :> file)
    /\ backup_fs = BACKUP_FILES
    /\ mod_fs = MOD_FILES
    /\ steps = 0

NextScan == ask_file(SCAN_PATH)

ScanSpec == InitScan /\ [][NextScan]_vars

----------------------------------------------------------------------------
(* Patching and restoring: sessions of loads of the two images that share  *)
(* a base name, submits, dumps and mod manager windows, with the form and  *)
(* the slot selection left alone                                           *)

\* Handler runs in one such session.
MaxRestoreSteps == 7

GAME_PATHS == {<< "d1", "game" >>, << "d2", "game" >>}

InitRestore ==
    /\ dw_iso = NO_PATH
    /\ unit_mem = NoneMem
    /\ iso_unit_offset = None
    /\ found_offset = None
    /\ form = [f \in FIELD_NAMES |-> 0]
    /\ selected_slot_str = hex(0)
    /\ modname = << "" >>
    /\ status_label = Status("", "", "green")
    /\ managers = {}
    /\ mod_status = Status("", "", "green")
    /\ iso_fs = ISO_FILES
    /\ backup_fs = BACKUP_FILES
    /\ mod_fs = MOD_FILES
    \* the handlers run while steps < MaxSteps
    /\ steps = MaxSteps - MaxRestoreSteps

NextRestore ==
    \/ \E path \in GAME_PATHS : ask_file(path)
    \/ submit_unit
    \/ create_unit_mod
    \/ open_mod_manager
    \/ \E m \in managers : \E file_path \in DOMAIN mod_fs :
          enable_mod(m, file_path)
    \/ \E m \in managers : \E file_path \in DOMAIN backup_fs :
          disable_mod(m, file_path)

RestoreSpec == InitRestore /\ [][NextRestore]_vars

----------------------------------------------------------------------------
(* Properties *)

SlotBytes(buf, slot_index) ==
    Slice(buf, slot_index * SLOT_SIZE, slot_index * SLOT_SIZE + SLOT_SIZE)

SelectedSlot == get_selected_slot_index(selected_slot_str)

Readable(intvars) == \A f \in FIELD_NAMES : intvars[f] # EMPTY

NameInRange(intvars) == 0 <= intvars["name"] /\ intvars["name"] <= 65535

BytesInRange(intvars) ==
    \A f \in FIELD_NAMES \ {"name"} : 0 <= intvars[f] /\ intvars[f] <= 255

\* The table as it is in an image file, behind the first signature.
TableIn(file) ==
    LET p == find(file, AOB_PATTERN)
    IN  Slice(file, p + TABLE_DISPLACEMENT, p + TABLE_DISPLACEMENT + BLOCK_SIZE)

\* A load of path that finds the signature and the whole table.
LoadSucceeds(fs, path) ==
    /\ isfile(fs, path)
    /\ find(fs[path], AOB_PATTERN) # -1
    /\ Len(TableIn(fs[path])) = BLOCK_SIZE

\* C1 as stated: a submit of fields of which only the name is known to be in
\* [0, 65535] leaves in the selected slot a record that decodes to exactly
\* the fields submitted.
C1_RoundTripAnyFields ==
    [][ (submit_unit /\ ~unit_mem.isNone /\ Readable(form) /\ NameInRange(form))
        => LET shown == unit_display(SelectedSlot, unit_mem', form, status_label)
           IN  shown.status.text = "Loaded slot" /\ shown.form = form
      ]_vars

\* C1, amended: a submit of fields with the name in [0, 65535] and every
\* one-byte field in [0, 255] leaves in the selected slot a record that
\* unit_display decodes to exactly the fields submitted (the name and the
\* 20 one-byte fields).
C1_RoundTrip ==
    [][ (submit_unit /\ ~unit_mem.isNone /\ Readable(form) /\ NameInRange(form)
            /\ BytesInRange(form))
        => LET shown == unit_display(SelectedSlot, unit_mem', form, status_label)
           IN  shown.status.text = "Loaded slot" /\ shown.form = form
      ]_vars

\* A submit of an edited name that needs both of its bytes has been written
\* and decodes to the form.
C1_Witness ==
    /\ ~unit_mem.isNone
    /\ status_label.text = "Values written for slot"
    /\ form["name"] = 513
    /\ BytesInRange(form)
    /\ DecodeRecord(SlotBytes(unit_mem.buf, SelectedSlot)) = form

\* C2: a submit either replaces exactly the 22 bytes of the selected slot by
\* the record of the fields (the name in [0, 65535], every field readable)
\* and leaves every other byte and the length of the buffer as they were, or
\* (the name outside [0, 65535], or a field not readable) leaves the buffer
\* unchanged and reports an error.
C2_SubmitAllOrNothing ==
    [][ (submit_unit /\ ~unit_mem.isNone) =>
        LET lo == SelectedSlot * SLOT_SIZE
            old == unit_mem.buf
            new == unit_mem'.buf
        IN  IF Readable(form) /\ NameInRange(form)
            THEN /\ SelectedSlot \in 0..(NUM_SLOTS_TOTAL - 1)
                 /\ Len(new) = Len(old)
                 /\ \A i \in 1..Len(old) :
                       (i <= lo \/ i > lo + SLOT_SIZE) => new[i] = old[i]
                 /\ new[lo + 1] + 256 * new[lo + 2] = form["name"]
                 /\ \A k \in 1..Len(BYTE_FIELDS) :
                       new[lo + 2 + k] = form[BYTE_FIELDS[k]] % 256
                 /\ status_label'.fg = "green"
            ELSE /\ new = old
                 /\ status_label'.text = "Error with entries"
                 /\ status_label'.fg = "red"
      ]_vars

\* A submit of the name 70000 has been refused: the buffer is still the
\* table of the image.
C2_Witness ==
    /\ ~unit_mem.isNone
    /\ form["name"] = 70000
    /\ status_label = Status("Error with entries",
                             "Name ID must be between 0 and 65535.", "red")
    /\ isfile(iso_fs, dw_iso)
    /\ unit_mem.buf = TableIn(iso_fs[dw_iso])

\* C3: after a load of an image the scan's result is the position of the
\* first occurrence of the signature in the whole file plus the
\* displacement, and "not found" (no offset, no buffer) exactly when the
\* signature does not occur in the file.
C3_ScanIsWholeFileSearch ==
    dw_iso # NO_PATH =>
        LET p == find(iso_fs[dw_iso], AOB_PATTERN)
        IN  /\ found_offset = IF p = -1 THEN None ELSE p + TABLE_DISPLACEMENT
            /\ (p = -1) <=>
                  (status_label.text = "Could not locate unit data block in ISO file.")
            /\ (p = -1) => (iso_unit_offset = None /\ unit_mem.isNone)
            /\ (p # -1 /\ ~unit_mem.isNone) =>
                  iso_unit_offset = p + TABLE_DISPLACEMENT

\* A signature that starts in the first chunk and ends in the second has
\* been found, and the table behind it loaded.
C3_Witness ==
    /\ dw_iso # NO_PATH
    /\ LET p == find(iso_fs[dw_iso], AOB_PATTERN)
       IN  /\ 0 < p /\ p < chunk_size /\ chunk_size < p + Len(AOB_PATTERN)
           /\ found_offset = p + TABLE_DISPLACEMENT
    /\ ~unit_mem.isNone

\* What a press of "Enable Mod" or "Disable Mod" in window m with a picked
\* file of content data has to leave behind.
ApplyAllOrNothing(m, data) ==
    IF Len(data) # SLOT_SIZE * NUM_SLOTS_TOTAL
    THEN /\ iso_fs' = iso_fs
         /\ mod_status'.detail = "size mismatch"
         /\ mod_status'.fg = "red"
    ELSE IF ~isfile(iso_fs, m.iso_path)
    THEN iso_fs' = iso_fs
    ELSE LET old == iso_fs[m.iso_path]
             new == iso_fs'[m.iso_path]
             lo  == m.iso_unit_offset
         IN  /\ DOMAIN iso_fs' = DOMAIN iso_fs
             /\ \A p \in DOMAIN iso_fs \ {m.iso_path} : iso_fs'[p] = iso_fs[p]
             /\ Len(new) = Len(old)
             /\ \A i \in 1..Len(old) :
                   new[i] = IF lo < i /\ i <= lo + Len(data)
                            THEN data[i - lo] ELSE old[i]

\* C4: enable_mod and disable_mod with a block that is not
\* NUM_SLOTS_TOTAL * SLOT_SIZE bytes long leave every image file unchanged
\* and report the size mismatch; with a block of that length they replace
\* exactly the bytes [offset, offset + length) of the window's image by the
\* block, leave its other bytes, its length and every other image unchanged.
C4_ApplyAllOrNothing ==
    [][ \A m \in managers :
          /\ \A file_path \in DOMAIN mod_fs :
                enable_mod(m, file_path) => ApplyAllOrNothing(m, mod_fs[file_path])
          /\ \A file_path \in DOMAIN backup_fs :
                disable_mod(m, file_path) => ApplyAllOrNothing(m, backup_fs[file_path])
      ]_vars

\* A mod of the table's size has been enabled: an image has the length it
\* had and holds the mod's bytes as its table.
C4_Witness ==
    /\ mod_status.text = "Mod enabled successfully."
    /\ \E p \in DOMAIN iso_fs :
          /\ iso_fs[p] # ISO_FILES[p]
          /\ Len(iso_fs[p]) = Len(ISO_FILES[p])
          /\ TableIn(iso_fs[p]) = MOD_FILES["thirdparty"]

\* C5: no step changes or removes a backup file that exists; a load that
\* succeeds leaves a backup under the image's base name, and a backup is
\* created only by such a load and then holds the table bytes that load read.
C5_BackupOnce ==
    [][ /\ \A n \in DOMAIN backup_fs :
              n \in DOMAIN backup_fs' /\ backup_fs'[n] = backup_fs[n]
        /\ \A path \in ISO_PATHS :
              (ask_file(path) /\ LoadSucceeds(iso_fs, path)) =>
                 /\ basename_stem(path) \in DOMAIN backup_fs'
                 /\ basename_stem(path) \notin DOMAIN backup_fs =>
                       backup_fs'[basename_stem(path)] = TableIn(iso_fs[path])
        /\ \A n \in DOMAIN backup_fs' \ DOMAIN backup_fs :
              \E path \in ISO_PATHS :
                 /\ ask_file(path)
                 /\ LoadSucceeds(iso_fs, path)
                 /\ basename_stem(path) = n
      ]_vars

\* An image whose table a mod has replaced has been loaded again: the buffer
\* holds the mod's table, the backup still the table of the first load.
C5_Witness ==
    /\ dw_iso = << "d1", "game" >>
    /\ ~unit_mem.isNone
    /\ iso_fs[dw_iso] # ISO_FILES[dw_iso]
    /\ unit_mem.buf = TableIn(iso_fs[dw_iso])
    /\ "game" \in DOMAIN backup_fs
    /\ backup_fs["game"] = TableIn(ISO_FILES[dw_iso])
    /\ backup_fs["game"] # unit_mem.buf

\* C6, in the case it names: a load that fails (no file, no signature, a
\* short table) after a load that succeeded leaves the image path, the
\* buffer and the offset as they were and reports the failure.
C6_FailedLoadKeepsState ==
    [][ \A path \in ISO_PATHS :
          (ask_file(path) /\ ~unit_mem.isNone /\ ~LoadSucceeds(iso_fs, path)) =>
             /\ dw_iso' = dw_iso
             /\ unit_mem'.isNone = unit_mem.isNone
             /\ unit_mem'.buf = unit_mem.buf
             /\ iso_unit_offset' = iso_unit_offset
             /\ status_label'.fg = "red"
      ]_vars

\* C7: a submit changes the bytes at the record offsets 2 and 18 (Unknown1,
\* Unknown2) of no slot of the buffer.
C7_HiddenFieldsPreserved ==
    [][ (submit_unit /\ ~unit_mem.isNone) =>
          \A slot \in 0..(NUM_SLOTS_TOTAL - 1) :
             /\ SlotBytes(unit_mem'.buf, slot)[3] = SlotBytes(unit_mem.buf, slot)[3]
             /\ SlotBytes(unit_mem'.buf, slot)[19] = SlotBytes(unit_mem.buf, slot)[19]
      ]_vars

\* C8: the buffer is absent or exactly NUM_SLOTS_TOTAL * SLOT_SIZE bytes
\* long, and absent (as is the offset) while the current image is one whose
\* table is cut short and while the status line reports the short read.
C8_BufferAbsentOrFull ==
    /\ unit_mem.isNone \/ Len(unit_mem.buf) = SLOT_SIZE * NUM_SLOTS_TOTAL
    /\ ( /\ isfile(iso_fs, dw_iso)
         /\ find(iso_fs[dw_iso], AOB_PATTERN) # -1
         /\ Len(TableIn(iso_fs[dw_iso])) < SLOT_SIZE * NUM_SLOTS_TOTAL )
       => (unit_mem.isNone /\ iso_unit_offset = None)
    /\ status_label.text = "Unexpected EOF"
       => (unit_mem.isNone /\ iso_unit_offset = None)

\* After a load that succeeded (its backup is there), the load of an image
\* that ends inside its table has failed and left no buffer.
C8_Witness ==
    /\ dw_iso = << "d1", "short" >>
    /\ status_label.text = "Unexpected EOF"
    /\ unit_mem.isNone
    /\ "game" \in DOMAIN backup_fs

\* C9: create_unit_mod writes the whole buffer, whatever its position, into
\* the mod file of the name entered, changes no other mod file and leaves
\* the buffer as it is; and a load that succeeds leaves as the buffer the
\* bytes of the image at the table offset, so that a dump right after it
\* writes those.
C9_DumpVerbatim ==
    [][ /\ (create_unit_mod /\ ~unit_mem.isNone) =>
              LET written == IF modname[1] = "" THEN DEFAULT_MOD_NAME
                             ELSE modname[1]
              IN  /\ unit_mem' = unit_mem
                  /\ DOMAIN mod_fs' = DOMAIN mod_fs \cup {written}
                  /\ mod_fs'[written] = unit_mem.buf
                  /\ \A k \in DOMAIN mod_fs \ {written} : mod_fs'[k] = mod_fs[k]
        /\ \A path \in ISO_PATHS :
              (ask_file(path) /\ LoadSucceeds(iso_fs, path)) =>
                 /\ ~unit_mem'.isNone
                 /\ unit_mem'.buf = TableIn(iso_fs[path])
      ]_vars

\* The buffer, changed by a submit and with its position behind a slot, has
\* been dumped: the mod file equals it.
C9_Witness ==
    /\ status_label.text = "Mod file created successfully."
    /\ ~unit_mem.isNone
    /\ unit_mem.pos > 0
    /\ isfile(iso_fs, dw_iso)
    /\ unit_mem.buf # TableIn(iso_fs[dw_iso])
    /\ DEFAULT_MOD_NAME \in DOMAIN mod_fs
    /\ mod_fs[DEFAULT_MOD_NAME] = unit_mem.buf

\* Path and offset are those of a file in which the signature is found
\* a displacement before the offset.
LocatedIn(fs, path, offset) ==
    /\ isfile(fs, path)
    /\ find(fs[path], AOB_PATTERN) # -1
    /\ offset = find(fs[path], AOB_PATTERN) + TABLE_DISPLACEMENT

\* C10: the offset and the buffer are both absent or both present; when
\* present the offset is the one located in the image at the current path;
\* and every mod manager window holds a path and the offset located in the
\* image at that path.
C10_SessionConsistent ==
    /\ (iso_unit_offset = None) <=> unit_mem.isNone
    /\ iso_unit_offset # None => LocatedIn(iso_fs, dw_iso, iso_unit_offset)
    /\ \A m \in managers : LocatedIn(iso_fs, m.iso_path, m.iso_unit_offset)

\* The backup under the base name of the image at path is the one a load of
\* that image created: no image is written before its first load, and the
\* tables of the images differ.
BackupIsOf(path) ==
    /\ path \in DOMAIN ISO_FILES
    /\ basename_stem(path) \in DOMAIN backup_fs
    /\ backup_fs[basename_stem(path)] = TableIn(ISO_FILES[path])

\* C11: a disable_mod in a window on an image, with the backup that a load
\* of that image created, leaves the image's bytes [offset, offset + table
\* size) equal to the table read at the image's first load and the whole
\* image equal to its content at first load, whatever was submitted, dumped
\* and enabled before; a load of the image then yields a buffer equal to
\* the backup.
C11_DisableRestores ==
    [][ \A m \in managers :
          (BackupIsOf(m.iso_path) /\ disable_mod(m, basename_stem(m.iso_path))) =>
             LET path   == m.iso_path
                 backup == backup_fs[basename_stem(path)]
                 loaded == load_unit_data_in_memory(path, iso_fs', backup_fs',
                                                    unit_mem', iso_unit_offset')
             IN  /\ mod_status'.text = "Backup applied successfully."
                 /\ Slice(iso_fs'[path], m.iso_unit_offset,
                          m.iso_unit_offset + SLOT_SIZE * NUM_SLOTS_TOTAL)
                       = TableIn(ISO_FILES[path])
                 /\ iso_fs'[path] = ISO_FILES[path]
                 /\ loaded.unit_mem = BytesIO(backup)
                 /\ loaded.iso_unit_offset = m.iso_unit_offset
      ]_vars

\* The image was loaded, a mod enabled on it and the image loaded again (the
\* buffer holds the mod's table); then its backup has been applied: the
\* image is as it was at its first load.
C11_Witness ==
    /\ mod_status.text = "Backup applied successfully."
    /\ isfile(iso_fs, dw_iso)
    /\ BackupIsOf(dw_iso)
    /\ ~unit_mem.isNone
    /\ unit_mem.buf = MOD_FILES["thirdparty"]
    /\ iso_fs[dw_iso] = ISO_FILES[dw_iso]
    /\ \E m \in managers : m.iso_path = dw_iso

====
